---- MODULE Spec2Model ----
(***************************************************************************)
(* The upload orchestration of packages/uploadthing/src/sdk/utils.ts:      *)
(* uploadFilesInternal, getPresignedUrls, uploadFile, uploadMultipart and  *)
(* uploadPresignedPost, and its downloadFiles, as a state machine whose     *)
(* steps are the network requests the code issues and the responses it     *)
(* receives.                                                               *)
(***************************************************************************)
EXTENDS Integers, Sequences, FiniteSets, TLC

\* ---------------------------------------------------------------- bounds
\* Largest batch whose files receive arbitrary descriptors and failures.
MaxFiles == 2
\* Largest file size, in bytes.
MaxSize == 4
\* Largest chunkSize a multipart descriptor declares.
MaxChunk == 2
\* Most part URLs in a multipart descriptor.
MaxParts == 2
\* Most status polls issued for one file.
MaxPolls == 2

\* ------------------------------------------------------ program constants
\* { concurrency: 10 } of Effect.forEach in uploadFilesInternal.
Concurrency == 10
\* maxRetries: 10 handed to uploadPart by uploadMultipart.
maxRetries == 10

\* A batch one file larger than the concurrency ceiling.
BigBatch == Concurrency + 1

VARIABLES
  files,        \* input.files: the batch, a sequence of [name, size]
  faulty,       \* whether the network of this run may fail requests
  phase,        \* position of uploadFilesInternal
  urlRequests,  \* number of POST /api/uploadFiles requests issued
  data,         \* the data array of the response to /api/uploadFiles
  presigneds,   \* result of getPresignedUrls: sequence of [file, presigned]
  pipe,         \* position of each file's uploadFile pipeline
  ranges,       \* per file: the [offset, end) slices uploadMultipart takes
  parts,        \* per file, per part: state of the uploadPart call
  etags,        \* per file: the array Effect.all collects the acks into
  completeCalls,\* per file: the ack lists passed to completeMultipartUpload
  form,         \* per file: the FormData built by uploadPresignedPost
  posts,        \* per file: number of form POSTs issued
  polls,        \* per file: the keys of the status polls issued
  lastAnswer,   \* per file: what its latest answered status poll was answered with
  ackOrder,     \* per file: the part numbers in the order their PUTs succeeded
  defect,       \* the defect Effect.forEach died with ("none": it has not)
  result,       \* the collection uploadFilesInternal returns
  transferred,  \* per file: whether its byte transfer has been answered with success
  nonDone,      \* per file: number of status polls answered with a status but "done"
  urls,         \* the urls downloadFiles is called with, each a sequence of characters
  fetches,      \* position of each url's download
  downloaded,   \* per url: the name of the UTFile its download produced
  dlPhase       \* position of downloadFiles

vars == <<files, faulty, phase, urlRequests, data, presigneds, pipe, ranges,
          parts, etags, completeCalls, form, posts, polls, lastAnswer, ackOrder,
          defect, result, transferred, nonDone, urls, fetches, downloaded,
          dlPhase>>

\* The state of downloadFiles.
downloads == <<urls, fetches, downloaded, dlPhase>>

Min(a, b) == IF a < b THEN a ELSE b

\* ------------------------------------------------------------ descriptors
\* presigneds.data[i] when the response array is shorter than the batch.
Undefined == [kind |-> "undefined", key |-> 0, fileUrl |-> 0, urls |-> 0,
              chunkSize |-> 0, chunkCount |-> 0, fields |-> <<>>]

\* The field mappings a PresignedPost descriptor may carry, in iteration
\* order.  A form entry is a text field (k, v) or a file (k, blob: the name
\* of the file whose bytes it carries; 0 in a text field).
FieldMaps ==
  { <<>>,
    << [k |-> "key", v |-> "abc", blob |-> 0],
       [k |-> "policy", v |-> "xyz", blob |-> 0] >>,
    << [k |-> "file", v |-> "abc", blob |-> 0] >> }

\* mpuSchema: a descriptor with `urls` (here: how many), chunkSize and key.
\* The chunk count it declares is the number of its part URLs.
MPU(pos, n, cs) == [kind |-> "mpu", key |-> 10 + pos, fileUrl |-> 100 + pos,
                    urls |-> n, chunkSize |-> cs, chunkCount |-> n,
                    fields |-> <<>>]

\* A multipart descriptor whose declared chunk count is cc, whatever the
\* number of its part URLs.
MPUDeclaring(pos, n, cs, cc) == [MPU(pos, n, cs) EXCEPT !.chunkCount = cc]

\* pspSchema: a descriptor with url, fields and key.
PSP(pos, f) == [kind |-> "psp", key |-> 10 + pos, fileUrl |-> 100 + pos,
                urls |-> 0, chunkSize |-> 0, chunkCount |-> 0, fields |-> f]

\* The descriptors the control plane may put at position pos of `data` for
\* the only file of a batch: every shape within the bounds.
Descriptors(pos) ==
  { MPU(pos, n, cs) : n \in 0..MaxParts, cs \in 1..MaxChunk }
    \cup { MPUDeclaring(pos, n, cs, MaxParts) :
             n \in 0..MaxParts, cs \in 1..MaxChunk }
    \cup { PSP(pos, f) : f \in FieldMaps }

\* The descriptors it may put there for a file of a larger batch.
BatchDescriptors(pos) == { MPU(pos, 1, MaxChunk), PSP(pos, <<>>) }

\* The descriptors it may put at position pos for a batch of n files.
DescriptorsFor(n, pos) ==
  IF n = 1 THEN Descriptors(pos) ELSE BatchDescriptors(pos)

\* The arrays of length len for a batch of n files; an entry beyond the batch
\* is never read, so one value stands for it.
DataArrays(len, n) ==
  { d \in [1..len -> UNION { DescriptorsFor(n, p) : p \in 1..len }] :
      \A p \in 1..len :
        IF p <= n THEN d[p] \in DescriptorsFor(n, p) ELSE d[p] = PSP(p, <<>>) }

\* The `data` arrays a response to /api/uploadFiles may carry for a batch of
\* n files: one entry fewer, as many, or one more than the batch has files.
\* A batch larger than MaxFiles is answered with presigned-post descriptors.
Replies(n) ==
  IF n <= MaxFiles
    THEN UNION { DataArrays(len, n) : len \in (n - 1)..(n + 1) }
    ELSE { [p \in 1..n |-> PSP(p, <<>>)] }

\* The batches uploadFilesInternal is called with: file i is named i.  A
\* single file has any size up to MaxSize; in a larger batch file i has i bytes.
Batches ==
  { << [name |-> 1, size |-> s] >> : s \in 0..MaxSize }
    \cup { [i \in 1..n |-> [name |-> i, size |-> i]] : n \in 2..MaxFiles }

\* ------------------------------------------------------------ pure helpers
\* files.map((file, i) => ({ file, presigned: presigneds.data[i] }))
PairPresigned(fs, d) ==
  [i \in 1..Len(fs) |->
     [file |-> fs[i],
      presigned |-> IF i <= Len(d) THEN d[i] ELSE Undefined]]

\* PartRange without the clamp of `end` to file.size.
PartRangeUnclamped(index, chunkSize, size) ==
  [offset |-> chunkSize * index,
   end    |-> chunkSize * index + chunkSize]

\* presigned.urls.map((url, index) => ...): offset and end of the slice of
\* part index + 1.
PartRange(index, chunkSize, size) ==
  [offset |-> chunkSize * index,
   end    |-> Min(chunkSize * index + chunkSize, size)]

\* PartNumbers counting the parts by the declared chunk count.
PartNumbersDeclared(presigned) == 1..presigned.chunkCount

\* presigned.urls.map((url, index) => ...): one part, numbered index + 1, for
\* every part URL of the descriptor.
PartNumbers(presigned) == 1..presigned.urls

PartRanges(presigned, size) ==
  [j \in PartNumbers(presigned) |->
     PartRange(j - 1, presigned.chunkSize, size)]

\* The slot of Effect.all's result array that no ack has filled yet.
NoAck == [tag |-> 0, partNumber |-> 0]

\* The first slot of acks that holds no value yet.
FirstFree(acks, none) ==
  CHOOSE k \in 1..Len(acks) :
    acks[k] = none /\ \A m \in 1..(k - 1) : acks[m] # none

\* Effect.andThen((etag) => ({ tag: etag, partNumber: index + 1 }))
MakeAck(etag, index) == [tag |-> etag, partNumber |-> index + 1]

\* CollectAck pushing the acks in the order the uploads finish.
CollectAckInArrivalOrder(acks, index, ack) ==
  [acks EXCEPT ![FirstFree(acks, NoAck)] = ack]

\* Effect.all returns its results in the order of its input effects: the ack
\* of the effect at `index` lands in slot index + 1, whenever it finishes.
CollectAck(acks, index, ack) == [acks EXCEPT ![index + 1] = ack]

\* BuildForm appending the file before the fields.
BuildFormFileFirst(fields, file) ==
  << [k |-> "file", v |-> "", blob |-> file.name] >> \o fields

\* Object.entries(presigned.fields).forEach(([k, v]) => formData.append(k, v));
\* formData.append("file", file)
BuildForm(fields, file) ==
  fields \o << [k |-> "file", v |-> "", blob |-> file.name] >>

\* RetryWhile retrying whatever the error.
RetryWhileAnyError(err) == TRUE

\* while: (err) => err instanceof RetryError
RetryWhile(err) == err = "RetryError"

\* IsDone taking every status but "pending" for the end of the upload.
IsDoneUnlessPending(status) == status # "pending"

\* res.status === "done"
IsDone(status) == status = "done"

\* The value uploadFile returns.
UploadResult(file, presigned) ==
  [key |-> presigned.key, url |-> presigned.fileUrl,
   name |-> file.name, size |-> file.size]

NoData == [key |-> 0, url |-> 0, name |-> 0, size |-> 0]

\* Effect.match({ onFailure, onSuccess })
OnFailure(error) == [data |-> NoData, error |-> error]
OnSuccess(d) == [data |-> d, error |-> "null"]
Pending == [data |-> NoData, error |-> "pending"]

\* CollectResult pushing the results in the order the pipelines finish.
CollectResultInArrivalOrder(res, i, entry) ==
  [res EXCEPT ![FirstFree(res, Pending)] = entry]

\* Effect.forEach returns its results in the order of its input: the result
\* of file i lands in slot i.
CollectResult(res, i, entry) == [res EXCEPT ![i] = entry]

Running(st) == st \in {"mpu", "completing", "post", "poll"}
Finished(st) == st \in {"ok", "err"}

N == Len(files)
RunningCount == Cardinality({ i \in 1..N : Running(pipe[i]) })

\* ------------------------------------------------------------------- Init
InitWith(fs, f) ==
  /\ files = fs
  /\ faulty = f
  /\ phase = "start"
  /\ urlRequests = 0
  /\ data = <<>>
  /\ presigneds = <<>>
  /\ pipe = [i \in 1..Len(fs) |-> "idle"]
  /\ ranges = [i \in 1..Len(fs) |-> <<>>]
  /\ parts = [i \in 1..Len(fs) |-> <<>>]
  /\ etags = [i \in 1..Len(fs) |-> <<>>]
  /\ completeCalls = [i \in 1..Len(fs) |-> <<>>]
  /\ form = [i \in 1..Len(fs) |-> <<>>]
  /\ posts = [i \in 1..Len(fs) |-> 0]
  /\ polls = [i \in 1..Len(fs) |-> <<>>]
  /\ lastAnswer = [i \in 1..Len(fs) |-> "none"]
  /\ ackOrder = [i \in 1..Len(fs) |-> <<>>]
  /\ defect = "none"
  /\ result = [i \in 1..Len(fs) |-> Pending]
  /\ transferred = [i \in 1..Len(fs) |-> FALSE]
  /\ nonDone = [i \in 1..Len(fs) |-> 0]

\* downloadFiles called with the urls us.
DownloadOf(us) ==
  /\ urls = us
  /\ fetches = [u \in 1..Len(us) |-> "idle"]
  /\ downloaded = [u \in 1..Len(us) |-> <<>>]
  /\ dlPhase = "running"

\* A small batch on a network that may fail.
Init == \E b \in Batches : InitWith(b, TRUE) /\ DownloadOf(<<>>)

\* A batch larger than the concurrency ceiling on a network that answers
\* every request with success, in any order.
InitBatch ==
  /\ InitWith([i \in 1..BigBatch |-> [name |-> i, size |-> 1]], FALSE)
  /\ DownloadOf(<<>>)

\* ---------------------------------------------------------------- actions
\* A defect (Effect.die, or an exception thrown inside Effect.gen) in the
\* pipeline of file i: Effect.match handles typed failures only, so the defect
\* fails Effect.forEach, which interrupts the pipelines still running.
Interrupt(ps) ==
  [k \in 1..Len(ps) |->
     [j \in 1..Len(ps[k]) |->
        IF ps[k][j].st = "inflight"
          THEN [ps[k][j] EXCEPT !.st = "interrupted"]
          ELSE ps[k][j]]]

Die(i, ps, d) ==
  /\ phase' = "died"
  /\ defect' = d
  /\ pipe' = [k \in 1..N |-> IF k = i THEN "died"
                             ELSE IF Running(pipe[k]) THEN "interrupted"
                             ELSE pipe[k]]
  /\ parts' = Interrupt(ps)

\* GetPresignedUrls issuing the request again after it failed.
GetPresignedUrlsRetried ==
  /\ phase = "start" \/ (phase = "failed" /\ urlRequests < maxRetries)
  /\ phase' = "requesting"
  /\ urlRequests' = urlRequests + 1
  /\ UNCHANGED <<files, faulty, data, presigneds, pipe, ranges, parts, etags,
                 completeCalls, form, posts, polls, lastAnswer, ackOrder, defect,
                 result, transferred, nonDone, downloads>>

\* getPresignedUrls: the POST to /api/uploadFiles is issued.
GetPresignedUrls ==
  /\ phase = "start"
  /\ phase' = "requesting"
  /\ urlRequests' = urlRequests + 1
  /\ UNCHANGED <<files, faulty, data, presigneds, pipe, ranges, parts, etags,
                 completeCalls, form, posts, polls, lastAnswer, ackOrder, defect,
                 result, transferred, nonDone, downloads>>

\* fetchEffJson fails (transport error, or a body the schema rejects):
\* getPresignedUrls fails and so does uploadFilesInternal.
PresignedUrlsFailure ==
  /\ phase = "requesting"
  /\ faulty
  /\ phase' = "failed"
  /\ UNCHANGED <<files, faulty, urlRequests, data, presigneds, pipe, ranges,
                 parts, etags, completeCalls, form, posts, polls, lastAnswer,
                 ackOrder, defect, result, transferred, nonDone, downloads>>

\* The response decodes: each file is paired with the descriptor at its index.
PresignedUrlsReply(replies) ==
  /\ phase = "requesting"
  /\ \E d \in replies :
       /\ data' = d
       /\ presigneds' = PairPresigned(files, d)
  /\ phase' = "running"
  /\ UNCHANGED <<files, faulty, urlRequests, pipe, ranges, parts, etags,
                 completeCalls, form, posts, polls, lastAnswer, ackOrder, defect,
                 result, transferred, nonDone, downloads>>

PresignedUrlsResponse == PresignedUrlsReply(Replies(N))

\* The ETag the storage provider answers the PUT of part j of the object
\* `key` with: it identifies the bytes stored.
ETag(key, j) == key * 100 + j

\* The statuses /api/pollUpload answers with.
Statuses == {"done", "pending", ""}

\* What a form POST is answered with: a 2xx response, a non-2xx response, or
\* no response at all (the typed failure of fetchEff).
PostAnswers == {"ok", "non2xx", "FetchError"}

\* The state no step of a pipeline changes.
Fixed == UNCHANGED <<files, faulty, urlRequests, data, presigneds, downloads>>

\* The pipeline of file i ends in a typed failure: Effect.match turns it into
\* { data: null, error } and Effect.forEach keeps it in slot i.
FailFile(i, error) ==
  /\ pipe' = [pipe EXCEPT ![i] = "err"]
  /\ result' = CollectResult(result, i, OnFailure(error))
  /\ UNCHANGED <<phase, defect, parts>>

\* IssuePoll polling, for every file, the key of the first descriptor.
IssuePollFirstKey(i) ==
  polls' = [polls EXCEPT ![i] = Append(@, presigneds[1].presigned.key)]

\* The status poll GET /api/pollUpload/${presigned.key} is issued.
IssuePoll(i) == polls' = [polls EXCEPT ![i] = Append(@, presigneds[i].presigned.key)]

\* completeMultipartUpload(presigned, etags) is called with the acks collected.
CallComplete(i, acks) ==
  /\ completeCalls' = [completeCalls EXCEPT ![i] = Append(@, acks)]
  /\ pipe' = [pipe EXCEPT ![i] = "completing"]

\* AllAcked satisfied by the first ack.
AnyAcked(ps) == \E k \in 1..Len(ps) : ps[k].st = "acked"

\* Effect.all succeeds once every one of its effects has.
AllAcked(ps) == \A k \in 1..Len(ps) : ps[k].st = "acked"

\* uploadMultipart up to its first suspension: every part is sliced and its
\* uploadPart started (concurrency "inherit" finds no enclosing
\* withConcurrency, so Effect.all runs them all at once).
uploadMultipart(i) ==
  LET file == presigneds[i].file
      presigned == presigneds[i].presigned
      acks == [j \in PartNumbers(presigned) |-> NoAck]
      ps == [j \in PartNumbers(presigned) |->
               [st |-> "inflight", attempts |-> 1]]
  IN /\ ranges' = [ranges EXCEPT ![i] = PartRanges(presigned, file.size)]
     /\ parts' = [parts EXCEPT ![i] = ps]
     /\ etags' = [etags EXCEPT ![i] = acks]
     /\ IF AllAcked(ps)
          THEN CallComplete(i, acks)
          ELSE /\ pipe' = [pipe EXCEPT ![i] = "mpu"]
               /\ UNCHANGED completeCalls
     /\ UNCHANGED <<phase, defect, form, posts>>

\* uploadPresignedPost up to its suspension: the form is built and POSTed.
uploadPresignedPost(i) ==
  LET file == presigneds[i].file
      presigned == presigneds[i].presigned
  IN /\ form' = [form EXCEPT ![i] = BuildForm(presigned.fields, file)]
     /\ posts' = [posts EXCEPT ![i] = @ + 1]
     /\ pipe' = [pipe EXCEPT ![i] = "post"]
     /\ UNCHANGED <<phase, defect, ranges, parts, etags, completeCalls>>

\* MayStart starting no file once a pipeline has ended: the place of a
\* pipeline that ends is not given to the next file.
MayStartNoRefill(i) ==
  /\ pipe[i] = "idle"
  /\ \A k \in 1..(i - 1) : pipe[k] # "idle"
  /\ RunningCount < Concurrency
  /\ \A k \in 1..N : ~Finished(pipe[k])

\* MayStart without the concurrency ceiling.
MayStartUnbounded(i) ==
  /\ pipe[i] = "idle"
  /\ \A k \in 1..(i - 1) : pipe[k] # "idle"

\* Effect.forEach(presigneds, uploadFile, { concurrency: 10 }) starts the
\* pipeline of the next file, in input order, while fewer than 10 are running.
MayStart(i) ==
  /\ pipe[i] = "idle"
  /\ \A k \in 1..(i - 1) : pipe[k] # "idle"
  /\ RunningCount < Concurrency

\* uploadFile up to its first suspension.  It branches on "urls" in presigned,
\* which throws a TypeError when presigned is undefined.
uploadFile(i) ==
  /\ phase = "running"
  /\ MayStart(i)
  /\ CASE presigneds[i].presigned.kind = "undefined" ->
            /\ Die(i, parts, "TypeError")
            /\ UNCHANGED <<ranges, etags, completeCalls, form, posts>>
       [] presigneds[i].presigned.kind = "mpu" -> uploadMultipart(i)
       [] OTHER -> uploadPresignedPost(i)
  /\ UNCHANGED <<polls, lastAnswer, ackOrder, result, transferred, nonDone>>
  /\ Fixed

\* A part PUT is answered with an ETag: uploadPart is over, its ack is
\* collected, and once every part has one, completeMultipartUpload is called
\* with the collected array.
PartAck(i, j) ==
  /\ phase = "running"
  /\ pipe[i] = "mpu"
  /\ parts[i][j].st = "inflight"
  /\ LET etag == ETag(presigneds[i].presigned.key, j)
         acks == CollectAck(etags[i], j - 1, MakeAck(etag, j - 1))
         ps == [parts[i] EXCEPT ![j] = [st |-> "acked", attempts |-> 0]]
     IN /\ parts' = [parts EXCEPT ![i] = ps]
        /\ etags' = [etags EXCEPT ![i] = acks]
        /\ ackOrder' = [ackOrder EXCEPT ![i] = Append(@, j)]
        /\ IF AllAcked(ps)
             THEN CallComplete(i, acks)
             ELSE UNCHANGED <<pipe, completeCalls>>
  /\ UNCHANGED <<phase, defect, ranges, form, posts, polls, lastAnswer, result,
                 transferred, nonDone>>
  /\ Fixed

\* uploadPart retries a failed PUT, after a backoff, while it has made fewer
\* than maxRetries attempts.
RetriesLeft(attempts) == attempts < maxRetries

\* A part PUT fails: uploadPart retries it while it has attempts left; then
\* its RetryError reaches Effect.catchTag("RetryError", (e) => Effect.die(e)).
PartFailure(i, j) ==
  /\ phase = "running"
  /\ faulty
  /\ pipe[i] = "mpu"
  /\ parts[i][j].st = "inflight"
  /\ IF RetriesLeft(parts[i][j].attempts)
       THEN /\ parts' = [parts EXCEPT ![i][j].attempts = @ + 1]
            /\ UNCHANGED <<phase, defect, pipe>>
       ELSE Die(i, [parts EXCEPT ![i][j].st = "exhausted"], "RetryError")
  /\ UNCHANGED <<ranges, etags, completeCalls, form, posts, polls, lastAnswer,
                 ackOrder, result, transferred, nonDone>>
  /\ Fixed

\* The completion call is answered: on success the pipeline goes on to poll,
\* on failure uploadMultipart fails with the typed error of fetchEffJson.
CompleteResponse(i, ok) ==
  /\ phase = "running"
  /\ pipe[i] = "completing"
  /\ ok \/ faulty
  /\ IF ok
       THEN /\ pipe' = [pipe EXCEPT ![i] = "poll"]
            /\ transferred' = [transferred EXCEPT ![i] = TRUE]
            /\ IssuePoll(i)
            /\ UNCHANGED <<phase, defect, parts, result>>
       ELSE /\ FailFile(i, "FetchError")
            /\ UNCHANGED <<polls, transferred>>
  /\ UNCHANGED <<ranges, etags, completeCalls, form, posts, lastAnswer, ackOrder,
                 nonDone>>
  /\ Fixed

\* The form POST is answered.  res.ok: the pipeline goes on to poll.
\* Otherwise Effect.promise(res.text) reads the body and an UploadThingError
\* is thrown inside Effect.gen, which is a defect; res.text is called without
\* its receiver, so with a Response that needs one the defect is the
\* TypeError of that call.  A transport error is the typed failure of fetchEff.
PostResponse(i, res) ==
  /\ phase = "running"
  /\ pipe[i] = "post"
  /\ res = "ok" \/ faulty
  /\ CASE res = "ok" ->
            /\ pipe' = [pipe EXCEPT ![i] = "poll"]
            /\ transferred' = [transferred EXCEPT ![i] = TRUE]
            /\ IssuePoll(i)
            /\ UNCHANGED <<phase, defect, parts, result>>
       [] res = "non2xx" ->
            /\ \E d \in {"UploadThingError", "TypeError"} : Die(i, parts, d)
            /\ UNCHANGED <<polls, result, transferred>>
       [] OTHER ->
            /\ FailFile(i, res)
            /\ UNCHANGED <<polls, transferred>>
  /\ UNCHANGED <<ranges, etags, completeCalls, form, posts, lastAnswer, ackOrder,
                 nonDone>>
  /\ Fixed

\* What a status poll is answered with: a status, or no decodable response.
PollAnswers == Statuses \cup {"FetchError"}

\* PollError taking every decoded status for the end of the upload.
PollErrorOfTransportOnly(answer) ==
  IF answer \notin Statuses THEN answer ELSE "none"

\* The error the poll's effect fails with for an answer ("none": it succeeds).
PollError(answer) ==
  IF answer \notin Statuses THEN answer
  ELSE IF IsDone(answer) THEN "none"
  ELSE "RetryError"

\* exponentialBackoff after a failed attempt: the schedule goes on (TRUE) or
\* is over (FALSE).  It is bounded by the growth of its delays, not by a
\* number of attempts, so it may be over after any attempt.
ScheduleSteps == BOOLEAN

\* CatchTag catching no error.
CatchTagNothing(err) == FALSE

\* Effect.catchTag("RetryError", (e) => Effect.die(e)): the RetryError that
\* is left when the retries are over becomes a defect.
CatchTag(err) == err = "RetryError"

\* A status poll is answered.  "done" ends the pipeline with its result; any
\* other status is a RetryError, retried while the exponentialBackoff schedule
\* goes on (continues) and turned into a defect by
\* Effect.catchTag("RetryError", die) when it is over; any other error is not
\* retried and fails the pipeline.
PollResponse(i, answer, continues) ==
  /\ phase = "running"
  /\ pipe[i] = "poll"
  /\ IsDone(answer) \/ faulty
  /\ LET e == PollError(answer)
     IN /\ (e # "none" /\ RetryWhile(e) /\ continues) => Len(polls[i]) < MaxPolls
        /\ lastAnswer' = [lastAnswer EXCEPT ![i] = answer]
        /\ nonDone' = [nonDone EXCEPT ![i] =
                         IF answer \in Statuses /\ answer # "done" THEN @ + 1 ELSE @]
        /\ CASE e = "none" ->
                  /\ pipe' = [pipe EXCEPT ![i] = "ok"]
                  /\ result' = CollectResult(result, i,
                       OnSuccess(UploadResult(presigneds[i].file,
                                              presigneds[i].presigned)))
                  /\ UNCHANGED <<phase, defect, parts, polls>>
             [] e # "none" /\ RetryWhile(e) /\ continues ->
                  /\ IssuePoll(i)
                  /\ UNCHANGED <<phase, defect, pipe, parts, result>>
             [] e # "none" /\ CatchTag(e) ->
                  /\ Die(i, parts, e)
                  /\ UNCHANGED <<polls, result>>
             [] OTHER ->
                  /\ FailFile(i, e)
                  /\ UNCHANGED polls
  /\ UNCHANGED <<ranges, etags, completeCalls, form, posts, ackOrder, transferred>>
  /\ Fixed

\* Every pipeline has ended without a defect: Effect.forEach returns.
Return ==
  /\ phase = "running"
  /\ \A i \in 1..N : Finished(pipe[i])
  /\ phase' = "returned"
  /\ UNCHANGED <<files, faulty, urlRequests, data, presigneds, pipe, ranges,
                 parts, etags, completeCalls, form, posts, polls, lastAnswer,
                 ackOrder, defect, result, transferred, nonDone, downloads>>

Next ==
  \/ GetPresignedUrls
  \/ PresignedUrlsFailure
  \/ PresignedUrlsResponse
  \/ \E i \in 1..N : uploadFile(i)
  \/ \E i \in 1..N : \E j \in 1..Len(parts[i]) : PartAck(i, j)
  \/ \E i \in 1..N : \E j \in 1..Len(parts[i]) : PartFailure(i, j)
  \/ \E i \in 1..N : \E ok \in BOOLEAN : CompleteResponse(i, ok)
  \/ \E i \in 1..N : \E res \in PostAnswers : PostResponse(i, res)
  \/ \E i \in 1..N : \E answer \in PollAnswers : \E continues \in ScheduleSteps :
       PollResponse(i, answer, continues)
  \/ Return

Spec == Init /\ [][Next]_vars

\* The steps a batch of presigned-post files takes on a network without
\* failures.
NextBatch ==
  \/ GetPresignedUrls
  \/ PresignedUrlsResponse
  \/ \E i \in 1..N : uploadFile(i)
  \/ \E i \in 1..N : PostResponse(i, "ok")
  \/ \E i \in 1..N : PollResponse(i, "done", TRUE)
  \/ Return

SpecBatch == InitBatch /\ [][NextBatch]_vars

\* ----------------------------------------------------------------- claims
\* The response to /api/uploadFiles has been decoded.
Responded == phase \in {"running", "returned", "died"}

\* uploadMultipart has sliced file i.
Sliced(i) == pipe[i] # "idle" /\ presigneds[i].presigned.kind = "mpu"

\* The ranges r exactly partition [0, size): each lies inside it, every byte
\* is in exactly one, consecutive ranges touch, and every range but the last
\* is cs bytes long.
ExactPartition(r, size, cs) ==
  /\ \A j \in 1..Len(r) :
       0 <= r[j].offset /\ r[j].offset <= r[j].end /\ r[j].end <= size
  /\ \A b \in 0..(size - 1) :
       Cardinality({ j \in 1..Len(r) : r[j].offset <= b /\ b < r[j].end }) = 1
  /\ \A j \in 1..(Len(r) - 1) : r[j].end = r[j + 1].offset
  /\ \A j \in 1..(Len(r) - 1) : r[j].end - r[j].offset = cs

\* The descriptor has as many part URLs as the file has chunks (the last
\* chunk may be empty).
ChunksMatch(presigned, size) ==
  /\ (presigned.urls - 1) * presigned.chunkSize <= size
  /\ size <= presigned.urls * presigned.chunkSize

\* C1 as stated: for every file size, chunkSize and multipart descriptor, the
\* ranges uploadMultipart slices exactly partition [0, file.size).
C1_PartitionForEveryDescriptor ==
  \A i \in 1..N :
    Sliced(i) =>
      ExactPartition(ranges[i], files[i].size, presigneds[i].presigned.chunkSize)

\* C1 amended: when the descriptor has n part URLs with
\* (n - 1) * chunkSize <= file.size <= n * chunkSize, the ranges
\* uploadMultipart slices exactly partition [0, file.size), every part but
\* the last being chunkSize bytes long.
C1_PartitionWhenChunksMatch ==
  \A i \in 1..N :
    (Sliced(i) /\ ChunksMatch(presigneds[i].presigned, files[i].size)) =>
      ExactPartition(ranges[i], files[i].size, presigneds[i].presigned.chunkSize)

\* A file of two parts whose last part is shorter than chunkSize was sliced.
C1_Witness ==
  \E i \in 1..N :
    /\ Sliced(i)
    /\ ChunksMatch(presigneds[i].presigned, files[i].size)
    /\ Len(ranges[i]) = 2
    /\ ranges[i][2].end - ranges[i][2].offset > 0
    /\ ranges[i][2].end - ranges[i][2].offset < presigneds[i].presigned.chunkSize

\* C2: whatever the order in which the part uploads finish, the acks passed
\* to completeMultipartUpload are in strictly ascending partNumber order.
C2_AcksAscending ==
  \A i \in 1..N :
    \A c \in 1..Len(completeCalls[i]) :
      \A j \in 1..(Len(completeCalls[i][c]) - 1) :
        completeCalls[i][c][j].partNumber < completeCalls[i][c][j + 1].partNumber

\* completeMultipartUpload was called for a file whose part 2 finished before
\* its part 1.
C2_Witness ==
  \E i \in 1..N :
    /\ Len(completeCalls[i]) = 1
    /\ Len(completeCalls[i][1]) = 2
    /\ ackOrder[i] = <<2, 1>>

\* C3: at every instant at most 10 uploadFile pipelines have been started and
\* have not finished.
C3_AtMostTenRunning == RunningCount <= 10

\* Ten pipelines are running while a file of the batch waits to be started.
C3_Witness ==
  /\ RunningCount = 10
  /\ \E i \in 1..N : pipe[i] = "idle"
  /\ \E i \in 1..N : pipe[i] = "poll"

\* The poll of file i in flight is answered in this step.
PollAnswered(i) ==
  /\ pipe[i] = "poll"
  /\ pipe'[i] # "interrupted"
  /\ pipe'[i] # "poll" \/ polls'[i] # polls[i]

NonTerminal == Statuses \ {"done"}

\* C4 as stated: the poller succeeds only on the status "done", and every
\* other status is followed by another poll, never by a return or a failure.
C4_AlwaysPollsAgain ==
  [][\A i \in 1..N :
       PollAnswered(i) =>
         /\ pipe'[i] = "ok" <=> lastAnswer'[i] = "done"
         /\ lastAnswer'[i] \in NonTerminal =>
              /\ pipe'[i] = "poll"
              /\ Len(polls'[i]) = Len(polls[i]) + 1]_vars

\* C4 amended: the poller succeeds only on the status "done"; every other
\* status is followed either by another poll or, when the backoff schedule is
\* over, by the death of the pipeline with the RetryError, never by a return.
C4_PollsAgainOrDies ==
  [][\A i \in 1..N :
       PollAnswered(i) =>
         /\ pipe'[i] = "ok" <=> lastAnswer'[i] = "done"
         /\ lastAnswer'[i] \in NonTerminal =>
              \/ /\ pipe'[i] = "poll"
                 /\ Len(polls'[i]) = Len(polls[i]) + 1
              \/ /\ pipe'[i] = "died"
                 /\ defect' = "RetryError"
                 /\ polls'[i] = polls[i]]_vars

\* A poll answered with the empty status was followed by a second poll.
C4_Witness ==
  \E i \in 1..N :
    /\ lastAnswer[i] = ""
    /\ pipe[i] = "poll"
    /\ Len(polls[i]) = 2

\* C5: completeMultipartUpload is called only once every part has its ack,
\* with exactly one ack per part and the partNumbers 1..n; a part that
\* exhausts its 10 attempts kills the pipeline and completeMultipartUpload is
\* never called for the file.
C5_CompleteOnlyWithEveryAck ==
  \A i \in 1..N :
    /\ Len(completeCalls[i]) <= 1
    /\ \A c \in 1..Len(completeCalls[i]) :
         LET acks == completeCalls[i][c]
             presigned == presigneds[i].presigned
         IN /\ Len(acks) = presigned.urls
            /\ { acks[k].partNumber : k \in 1..Len(acks) } = 1..presigned.urls
            /\ \A k \in 1..Len(acks) :
                 acks[k].tag = ETag(presigned.key, acks[k].partNumber)
            /\ \A j \in 1..Len(parts[i]) : parts[i][j].st = "acked"
    /\ \A j \in 1..Len(parts[i]) :
         parts[i][j].st = "exhausted" =>
           /\ parts[i][j].attempts = 10
           /\ completeCalls[i] = <<>>
           /\ pipe[i] = "died"
           /\ defect = "RetryError"

\* completeMultipartUpload was called for one file and a part of another
\* exhausted its attempts.
C5_Witness ==
  \E i, k \in 1..N :
    /\ Len(completeCalls[i]) = 1
    /\ Len(completeCalls[i][1]) >= 1
    /\ \E j \in 1..Len(parts[k]) : parts[k][j].st = "exhausted"

\* No request of any pipeline has been issued.
NoUploadIssued ==
  \A i \in 1..N :
    /\ posts[i] = 0
    /\ parts[i] = <<>>
    /\ completeCalls[i] = <<>>
    /\ polls[i] = <<>>

\* C6 as stated: when the data array of the response is shorter or longer
\* than the batch, the batch never returns and no part PUT, form POST,
\* completion call or status poll is issued.
C6_CountMismatchAborts ==
  (Responded /\ Len(data) # N) => (phase # "returned" /\ NoUploadIssued)

\* C7: the returned collection has one entry per input file, and entry i is
\* the outcome of file i uploaded with descriptor i.
C7_ResultsInInputOrder ==
  phase = "returned" =>
    /\ Len(result) = N
    /\ Len(data) >= N
    /\ \A i \in 1..N :
         /\ result[i] # Pending
         /\ result[i].error = "null" =>
              /\ pipe[i] = "ok"
              /\ result[i].data.key = data[i].key
              /\ result[i].data.url = data[i].fileUrl
              /\ result[i].data.name = files[i].name
              /\ result[i].data.size = files[i].size
         /\ result[i].error # "null" =>
              /\ pipe[i] = "err"
              /\ result[i].data = NoData

\* A batch of two files returned two successes, the first file having needed
\* one poll more than the second.
C7_Witness ==
  /\ phase = "returned"
  /\ N = 2
  /\ \A i \in 1..N : result[i].error = "null"
  /\ Len(polls[1]) = 2
  /\ Len(polls[2]) = 1

\* C8 as stated: once the response has one descriptor per file, no failure of
\* one pipeline ends the batch or another pipeline, and every returned entry
\* has exactly one of data and error.
C8_FailuresIsolated ==
  (Responded /\ Len(data) = N) =>
    /\ phase # "died"
    /\ \A i \in 1..N : pipe[i] # "interrupted"
    /\ phase = "returned" =>
         \A i \in 1..N : (result[i].data = NoData) # (result[i].error = "null")

\* C9: a poll that fails with anything but a non-terminal status ends the
\* pipeline in an error, and no further poll is issued for the file.
C9_PollErrorIsFatal ==
  [][\A i \in 1..N :
       /\ (PollAnswered(i) /\ lastAnswer'[i] \notin Statuses) =>
            /\ pipe'[i] = "err"
            /\ result'[i] = OnFailure(lastAnswer'[i])
            /\ polls'[i] = polls[i]
       /\ pipe[i] = "err" => (pipe'[i] = "err" /\ polls'[i] = polls[i])]_vars

\* The second poll of a file failed and its pipeline ended in that error.
C9_Witness ==
  \E i \in 1..N :
    /\ lastAnswer[i] = "FetchError"
    /\ Len(polls[i]) = 2
    /\ pipe[i] = "err"
    /\ result[i] = OnFailure("FetchError")

\* C10: the form body holds the descriptor's fields in their order, followed
\* by the file as its last entry, named "file", and no other entry carries
\* the file.
C10_FileIsLastField ==
  \A i \in 1..N :
    posts[i] > 0 =>
      LET f == form[i]
          fields == presigneds[i].presigned.fields
      IN /\ Len(f) = Len(fields) + 1
         /\ \A k \in 1..Len(fields) : f[k] = fields[k]
         /\ f[Len(f)].k = "file"
         /\ f[Len(f)].blob = files[i].name
         /\ \A k \in 1..(Len(f) - 1) : f[k].blob # files[i].name

\* A form of two fields and the file was posted.
C10_Witness ==
  \E i \in 1..N :
    /\ posts[i] > 0
    /\ Len(form[i]) = 3
    /\ form[i][3].k = "file"

\* The form POST of file i was answered with a non-2xx response.
PostRejected(i) ==
  /\ presigneds[i].presigned.kind = "psp"
  /\ pipe[i] = "died"
  /\ ~transferred[i]

\* C11: when the storage endpoint answers the form POST of a file with a
\* non-2xx response, no second POST is issued for the file, no status poll is
\* issued for it, and its upload ends in the UploadThingError UPLOAD_FAILED
\* that carries the response body as its cause.
C11_RejectedPostIsUploadFailed ==
  \A i \in 1..N :
    (Responded /\ PostRejected(i)) =>
      /\ posts[i] = 1
      /\ polls[i] = <<>>
      /\ defect = "UploadThingError"

\* ------------------------------------------------- a batch of many parts
\* Two files of BigBatch bytes each, on a network without failures.
InitParts ==
  /\ InitWith([i \in 1..2 |-> [name |-> i, size |-> BigBatch]], FALSE)
  /\ DownloadOf(<<>>)

\* Each is answered with a multipart descriptor of BigBatch one-byte parts.
PartsReplies == { [p \in 1..N |-> MPU(p, BigBatch, 1)] }

\* The storage provider answers the PUTs of a file in the order of its parts.
PartAckInOrder(i, j) ==
  /\ \A k \in 1..(j - 1) : parts[i][k].st = "acked"
  /\ PartAck(i, j)

NextParts ==
  \/ GetPresignedUrls
  \/ PresignedUrlsReply(PartsReplies)
  \/ \E i \in 1..N : uploadFile(i)
  \/ \E i \in 1..N : \E j \in 1..Len(parts[i]) : PartAckInOrder(i, j)
  \/ \E i \in 1..N : CompleteResponse(i, TRUE)
  \/ \E i \in 1..N : PollResponse(i, "done", TRUE)
  \/ Return

SpecParts == InitParts /\ [][NextParts]_vars

\* The part PUTs issued and not answered yet, over all the files of the batch.
InFlightParts ==
  { ij \in UNION { { <<i, j>> : j \in 1..Len(parts[i]) } : i \in 1..N } :
      parts[ij[1]][ij[2]].st = "inflight" }

\* C12: at every instant at most 10 part uploads are in flight over all the
\* files of one uploadFilesInternal batch.
C12_AtMostTenPartsInFlight == Cardinality(InFlightParts) <= Concurrency

\* ----------------------------------------------------------- downloadFiles
\* Longest url, in characters.
MaxUrlLen == 3

\* The characters of a url: the path separator and two others.
Chars == {"a", "b", "/"}

\* url.toString(): the text of a url, a sequence of characters.
UrlStrings == UNION { [1..n -> Chars] : n \in 1..MaxUrlLen }

\* The url lists downloadFiles is called with: one url of any text, or
\* several urls of the text "a/b".
UrlLists ==
  { << s >> : s \in UrlStrings }
    \cup { [u \in 1..n |-> << "a", "/", "b" >>] : n \in 2..MaxFiles }

\* The positions of sep in s.
Positions(s, sep) == { k \in 1..Len(s) : s[k] = sep }

\* String.prototype.split(sep): the pieces of s between the occurrences of
\* sep; a string without sep is its only piece, and a piece may be empty.
RECURSIVE Split(_, _)
Split(s, sep) ==
  IF Positions(s, sep) = {}
    THEN << s >>
    ELSE LET k == CHOOSE p \in Positions(s, sep) :
                    \A q \in Positions(s, sep) : p <= q
         IN << SubSeq(s, 1, k - 1) >> \o Split(SubSeq(s, k + 1, Len(s)), sep)

\* What Array.prototype.pop returns for an empty array.
UndefinedName == << "undefined" >>

\* Array.prototype.pop(): the last element, undefined for an empty array.
Pop(arr) == IF Len(arr) = 0 THEN UndefinedName ELSE arr[Len(arr)]

UnknownFilename == << "unknown-filename" >>

\* const name = url.toString().split("/").pop();
\* new UTFile([blob], name ?? "unknown-filename")
FileName(url) ==
  LET name == Pop(Split(url, "/"))
  IN IF name = UndefinedName THEN UnknownFilename ELSE name

\* The state of uploadFilesInternal.
uploads == <<files, faulty, phase, urlRequests, data, presigneds, pipe, ranges,
             parts, etags, completeCalls, form, posts, polls, lastAnswer,
             ackOrder, defect, result, transferred, nonDone>>

Fetching == Cardinality({ u \in 1..Len(urls) : fetches[u] = "fetching" })

\* Effect.forEach(urls, ..., { concurrency: 10 }) starts the download of the
\* next url, in input order, while fewer than 10 are running: fetchEff(url).
DownloadStart(u) ==
  /\ dlPhase = "running"
  /\ fetches[u] = "idle"
  /\ \A k \in 1..(u - 1) : fetches[k] # "idle"
  /\ Fetching < Concurrency
  /\ fetches' = [fetches EXCEPT ![u] = "fetching"]
  /\ UNCHANGED <<urls, downloaded, dlPhase, uploads>>

\* The fetch of url u is answered and its body read: the UTFile is built.
FetchResponse(u) ==
  /\ dlPhase = "running"
  /\ fetches[u] = "fetching"
  /\ fetches' = [fetches EXCEPT ![u] = "done"]
  /\ downloaded' = [downloaded EXCEPT ![u] = FileName(urls[u])]
  /\ UNCHANGED <<urls, dlPhase, uploads>>

\* The fetch of url u fails.  Nothing catches the failure, so it fails
\* Effect.forEach, which interrupts the downloads still running, and with it
\* downloadFiles.
FetchFailure(u) ==
  /\ dlPhase = "running"
  /\ fetches[u] = "fetching"
  /\ fetches' = [k \in 1..Len(urls) |->
                   IF k = u THEN "failed"
                   ELSE IF fetches[k] = "fetching" THEN "interrupted"
                   ELSE fetches[k]]
  /\ dlPhase' = "failed"
  /\ UNCHANGED <<urls, downloaded, uploads>>

\* Every download has succeeded: downloadFiles returns the files.
DownloadReturn ==
  /\ dlPhase = "running"
  /\ \A u \in 1..Len(urls) : fetches[u] = "done"
  /\ dlPhase' = "returned"
  /\ UNCHANGED <<urls, fetches, downloaded, uploads>>

InitDownload == InitWith(<<>>, TRUE) /\ \E us \in UrlLists : DownloadOf(us)

NextDownload ==
  \/ \E u \in 1..Len(urls) : DownloadStart(u)
  \/ \E u \in 1..Len(urls) : FetchResponse(u)
  \/ \E u \in 1..Len(urls) : FetchFailure(u)
  \/ DownloadReturn

SpecDownload == InitDownload /\ [][NextDownload]_vars

\* C13: a fetch failure for one url of downloadFiles affects the result of
\* that url only: when there are other urls, downloadFiles does not fail and
\* none of their downloads is stopped short of its file.
C13_FetchFailureIsolated ==
  \A u, v \in 1..Len(urls) :
    (u # v /\ fetches[u] = "failed") =>
      /\ dlPhase # "failed"
      /\ fetches[v] # "interrupted"

\* The characters of url after its last "/" (all of them when it has none).
FinalSegment(url) ==
  LET last == CHOOSE k \in Positions(url, "/") \cup {0} :
                \A q \in Positions(url, "/") : q <= k
  IN SubSeq(url, last + 1, Len(url))

\* C14: the file downloadFiles builds for a url is named after the final path
\* segment of the url, and "unknown-filename" when the url has none (it ends
\* in "/").
C14_NamedAfterFinalSegment ==
  \A u \in 1..Len(urls) :
    fetches[u] = "done" =>
      downloaded[u] = IF FinalSegment(urls[u]) = <<>>
                        THEN UnknownFilename
                        ELSE FinalSegment(urls[u])

\* C15 as stated: for every multipart descriptor, uploadMultipart issues as
\* many uploadPart calls, retries not counted, as the chunk count the
\* descriptor declares.
C15_PartCallsEqualChunkCount ==
  \A i \in 1..N :
    (Responded /\ Sliced(i)) =>
      Len(parts[i]) = presigneds[i].presigned.chunkCount

\* C15 amended: for every multipart descriptor, uploadMultipart issues as many
\* uploadPart calls, retries not counted, as the descriptor has part URLs;
\* that is the declared chunk count when the descriptor declares as many
\* chunks as it has part URLs.
C15_PartCallsEqualUrlCount ==
  \A i \in 1..N :
    (Responded /\ Sliced(i)) =>
      /\ Len(parts[i]) = presigneds[i].presigned.urls
      /\ presigneds[i].presigned.chunkCount = presigneds[i].presigned.urls =>
           Len(parts[i]) = presigneds[i].presigned.chunkCount

\* A file was sliced whose descriptor declares more chunks than it has part
\* URLs, and one uploadPart call was issued for its one URL.
C15_Witness ==
  \E i \in 1..N :
    /\ Responded /\ Sliced(i)
    /\ presigneds[i].presigned.urls = 1
    /\ presigneds[i].presigned.chunkCount > 1
    /\ Len(parts[i]) = 1

\* C16: a status poll is issued for a file only after its byte transfer has
\* succeeded (the completion call of a multipart upload made with the acks of
\* all its parts and answered with success, the one form POST of a
\* presigned-post upload answered 2xx), and every poll of the file is keyed by
\* the key of the file's own descriptor.
C16_PollsFollowTransferWithOwnKey ==
  \A i \in 1..N :
    (Responded /\ polls[i] # <<>>) =>
      /\ transferred[i]
      /\ presigneds[i].presigned.kind = "mpu" =>
           (completeCalls[i] # <<>> /\ AllAcked(parts[i]) /\ posts[i] = 0)
      /\ presigneds[i].presigned.kind = "psp" =>
           (posts[i] = 1 /\ completeCalls[i] = <<>>)
      /\ \A k \in 1..Len(polls[i]) : polls[i][k] = data[i].key

\* Both files of a batch, one multipart and one presigned-post, have been
\* polled, one of them twice.
C16_Witness ==
  /\ N = 2
  /\ Responded
  /\ \A i \in 1..N : polls[i] # <<>>
  /\ \E i \in 1..N : Len(polls[i]) = 2
  /\ \E i \in 1..N : presigneds[i].presigned.kind = "mpu"
  /\ \E i \in 1..N : presigneds[i].presigned.kind = "psp"

\* C17: when the status polls of a file are answered with k statuses other
\* than "done" and then with "done", uploadFile has issued exactly k + 1 polls
\* when it returns, it returns the file's success result on that "done", and
\* no poll is issued for the file afterwards.
C17_PollsOncePerAnswerUntilDone ==
  [][\A i \in 1..N :
       /\ pipe'[i] = "ok" =>
            /\ lastAnswer'[i] = "done"
            /\ Len(polls'[i]) = nonDone'[i] + 1
            /\ result'[i] = OnSuccess(UploadResult(presigneds'[i].file,
                                                   presigneds'[i].presigned))
       /\ pipe[i] = "ok" =>
            (pipe'[i] = "ok" /\ polls'[i] = polls[i] /\ result'[i] = result[i])]_vars

\* A file whose first poll was answered with a status other than "done" has
\* succeeded on its second poll.
C17_Witness ==
  \E i \in 1..N :
    /\ pipe[i] = "ok"
    /\ nonDone[i] >= 1
    /\ Len(polls[i]) = nonDone[i] + 1
    /\ result[i].error = "null"

\* A part PUT or a form POST has been issued to the storage provider.
StorageRequested == \E i \in 1..N : posts[i] > 0 \/ parts[i] # <<>>

\* C18: a run of uploadFilesInternal issues the POST to /api/uploadFiles
\* exactly once and never again; no part PUT and no form POST is issued
\* before that request has been answered; and when it fails, the run is over
\* without any storage request.
C18_OneUrlRequestBeforeStorage ==
  [][/\ urlRequests' <= 1
     /\ phase' # "start" => urlRequests' = 1
     /\ phase' \in {"start", "requesting", "failed"} => ~StorageRequested'
     /\ StorageRequested' => (Responded' /\ urlRequests' = 1)
     /\ phase = "failed" => phase' = "failed"]_vars

\* A batch has returned after one request to /api/uploadFiles and at least
\* one storage request.
C18_Witness ==
  /\ phase = "returned"
  /\ urlRequests = 1
  /\ StorageRequested

\* C19: a RetryError (a failed part attempt, a status poll answered with a
\* status other than "done") is never the error of a per-file result.  It is
\* absorbed by a retry (the part is attempted again, the file is polled
\* again), or it ends the pipeline as a defect that fills no result slot.
C19_RetryErrorNeverInResult ==
  [][\A i \in 1..N :
       /\ result'[i].error # "RetryError"
       /\ nonDone'[i] > nonDone[i] =>
            \/ pipe'[i] = "poll" /\ Len(polls'[i]) = Len(polls[i]) + 1
            \/ /\ pipe'[i] = "died"
               /\ defect' = "RetryError"
               /\ result'[i] = Pending
       /\ \A j \in 1..Len(parts[i]) :
            (parts[i][j].st = "inflight" /\ parts'[i][j].st # "acked"
               /\ parts'[i][j] # parts[i][j] /\ pipe[i] = pipe'[i]) =>
              parts'[i][j].attempts = parts[i][j].attempts + 1
       /\ \A j \in 1..Len(parts'[i]) :
            parts'[i][j].st = "exhausted" =>
              /\ pipe'[i] = "died"
              /\ defect' = "RetryError"
              /\ result'[i] = Pending]_vars

\* A file whose poll was answered with a status other than "done" has died
\* with the RetryError, and no result slot holds it.
C19_Witness ==
  \E i \in 1..N :
    /\ nonDone[i] >= 1
    /\ pipe[i] = "died"
    /\ defect = "RetryError"
    /\ \A k \in 1..N : result[k].error # "RetryError"

\* ------------------------------------------------------------- termination
\* The responses to /api/uploadFiles with one descriptor for each file.
LiveReplies(n) == { d \in Replies(n) : Len(d) = n }

\* A small batch, or a batch larger than the concurrency ceiling.
InitLive == Init \/ InitBatch

\* A part PUT fails while uploadPart has attempts left: it is retried.
PartRetry(i, j) ==
  /\ RetriesLeft(parts[i][j].attempts)
  /\ PartFailure(i, j)

\* A form POST is answered 2xx.  In a batch larger than MaxFiles the storage
\* provider answers the POSTs in the order they were issued, which is the
\* order of the files.
PostAccepted(i) ==
  /\ N > MaxFiles => \A k \in 1..(i - 1) : pipe[k] # "post"
  /\ PostResponse(i, "ok")

\* The steps of a run in which every request is answered, every part upload
\* succeeds within its attempts, and every file is polled until a poll
\* reports "done" or the exponentialBackoff schedule is over.
NextLive ==
  \/ GetPresignedUrls
  \/ PresignedUrlsReply(LiveReplies(N))
  \/ \E i \in 1..N : uploadFile(i)
  \/ \E i \in 1..N : \E j \in 1..Len(parts[i]) : PartAck(i, j)
  \/ \E i \in 1..N : \E j \in 1..Len(parts[i]) : PartRetry(i, j)
  \/ \E i \in 1..N : CompleteResponse(i, TRUE)
  \/ \E i \in 1..N : PostAccepted(i)
  \/ \E i \in 1..N : \E answer \in Statuses : \E continues \in ScheduleSteps :
       PollResponse(i, answer, continues)
  \/ Return

\* The runtime keeps running the fibers that can take a step, and every
\* request issued is answered: a step that stays possible is taken.
SpecLive == InitLive /\ [][NextLive]_vars /\ WF_vars(NextLive)

\* uploadFilesInternal has returned a success result for every file.
AllSucceeded ==
  /\ phase = "returned"
  /\ \A i \in 1..N : result[i].error = "null"

\* The exponentialBackoff schedule of a poller was over on a poll answered
\* with a status other than "done".
ScheduleOver ==
  \E i \in 1..N : nonDone[i] >= 1 /\ pipe[i] = "died" /\ defect = "RetryError"

====
